---- MODULE Spec2Model ----
(***************************************************************************)
(* renderPDFLazy (src/unnamed/part_001): the loader, the placeholder       *)
(* build, the IntersectionObserver callback and the queue / pump /         *)
(* renderPage scheduler, as a state machine over the JavaScript event loop.*)
(* One action is one run-to-completion job: a task (observer callback,     *)
(* settlement of an awaited promise) or a microtask (the .finally          *)
(* callback registered by pump).                                           *)
(***************************************************************************)
EXTENDS Integers, Sequences, FiniteSets, TLC

\* ---- bounds of the model ----
MaxPages == 2          \* largest pdf.numPages explored with a free viewport
MaxConcurrent == 2     \* largest options.concurrent explored
MaxFail == 1           \* page-level rejections explored per behaviour
MaxEntries == 1        \* entries delivered to one observer callback
MaxRepeat == 2         \* saturation of the declined-notification counter
MaxLivePages == 1      \* largest pdf.numPages with a free viewport under FairSpec
MaxParPages == 3       \* largest pdf.numPages given to the parallel renderPDF
MaxOldPages == 3       \* largest pdf.numPages given to the callback-based renderPDF

\* ---- program constants ----
DefaultMinBytes == 5 * 1024      \* options.minBytes default
DefaultConcurrent == 2           \* options.concurrent default

\* The scenario of the specification: 5 pages, limit 2, pages entering
\* proximity in this order.
ScenarioOrder == <<3, 1, 5, 2, 4>>

VARIABLES
    input,        \* frame of the running toArrayBufferWithSize call (input, minBytes), or NoInput
    concurrent,   \* options.concurrent
    numPages,     \* pdf.numPages of the document behind src (0: not a PDF)
    pc,           \* position of renderPDFLazy's body
    loader,       \* container holds a .pdf-loader element
    messages,     \* container-level .pdf-error messages, in append order
    holders,      \* .pdf-page-holder children of the container, in DOM order
    observer,     \* "none" | "observing" | "disconnected"
    proximity,    \* what the viewport will still report: [free, rest]
    queue,        \* const queue = []
    inFlight,     \* const inFlight = new Set()
    active,       \* let active = 0
    stage,        \* per page: the await renderPage(page) is suspended at
    micro,        \* queued .finally callbacks of pump (microtasks)
    started,      \* history: pages for which renderPage called pdf.getPage, in order
    accepted,     \* history: pages pushed on the queue, in order
    outcome,      \* history: per page, how its latest render call settled
    settled,      \* history: per page, render calls that have settled
    srcFault,     \* history: src is below minBytes, not fetchable or of no supported type
    declined,     \* history: [page, count] notifications enqueue declined for a pending page
    waited,       \* history: pending pages that enqueue left waiting in the queue
    fails,        \* history: page-level rejections so far
    smallHint,    \* history: src is a URL whose ok response announces 0 < length < minBytes
    atDisconnect, \* history: queue and inFlight as they were when disconnect() was called
    par,          \* a call of the parallel renderPDF (Promise.all over the pages)
    old           \* a call of the callback-based renderPDF (nested then chains)

vars == <<input, concurrent, numPages, pc, loader, messages, holders,
          observer, proximity, queue, inFlight, active, stage, micro,
          started, accepted, outcome, settled, srcFault, declined, waited, fails,
          smallHint, atDisconnect, par, old>>

\* ---- small helpers ----
SeqToSet(s) == {s[i] : i \in DOMAIN s}
Count(s, x) == Cardinality({i \in DOMAIN s : s[i] = x})
Min(a, b) == IF a < b THEN a ELSE b
PageIds == 1..numPages

\* ---- String(i) / Number(s) as used for dataset.page ----
MaxId == IF MaxPages > Len(ScenarioOrder) THEN MaxPages ELSE Len(ScenarioOrder)
String(i) == ToString(i)
Number(s) == IF \E n \in 0..MaxId : ToString(n) = s
             THEN CHOOSE n \in 0..MaxId : ToString(n) = s
             ELSE -1

\* ---- the inputs: src, the HTTP response behind a URL, the options ----
NoInput == [kind |-> "none", ok |-> FALSE, header |-> "null", size |-> 0, minBytes |-> 0]
Sizes == {DefaultMinBytes - 1024, DefaultMinBytes - 1, DefaultMinBytes}
Headers == {"null", "abc"} \cup {ToString(n) : n \in Sizes}
MinBytesChoices == {DefaultMinBytes - 1024, DefaultMinBytes}
Inputs ==
    [kind : {"string"}, ok : BOOLEAN, header : Headers, size : Sizes,
     minBytes : MinBytesChoices]
    \cup [kind : {"Blob", "ArrayBuffer", "view"}, ok : {TRUE}, header : {"null"},
          size : Sizes, minBytes : MinBytesChoices]
    \cup [kind : {"other"}, ok : {TRUE}, header : {"null"}, size : {0},
          minBytes : MinBytesChoices]

\* Number(res.headers.get("content-length")): null -> 0, digits -> the
\* number, anything else -> NaN.
HeaderNumber(h) ==
    IF h = "null" THEN [nan |-> FALSE, val |-> 0]
    ELSE IF \E n \in Sizes : ToString(n) = h
         THEN [nan |-> FALSE, val |-> CHOOSE n \in Sizes : ToString(n) = h]
         ELSE [nan |-> TRUE, val |-> 0]

\* variant: the announced length is not compared, only the body is measured
HeaderNotCompared(h, min) == FALSE

\* if (!Number.isNaN(len) && len > 0 && len < minBytes) throw
HeaderTooSmall(h, min) ==
    LET len == HeaderNumber(h)
    IN  ~len.nan /\ len.val > 0 /\ len.val < min

\* variant: the comparison is off by one byte
TooSmallOffByOne(size, min) == size < min - 1

\* if (size < minBytes) throw
TooSmall(size, min) == size < min

\* ---- DOM of the container ----
Holder(i) == [page |-> String(i), content |-> "skeleton", rendered |-> FALSE]

\* variant: the loop stops one page early (i < pdf.numPages)
RECURSIVE BuildFragShort(_, _, _)
BuildFragShort(i, n, frag) ==
    IF i < n THEN BuildFragShort(i + 1, n, Append(frag, Holder(i))) ELSE frag

\* for (let i = 1; i <= pdf.numPages; i++) { ... frag.appendChild(holder) }
RECURSIVE BuildFrag(_, _, _)
BuildFrag(i, n, frag) ==
    IF i <= n THEN BuildFrag(i + 1, n, Append(frag, Holder(i))) ELSE frag

\* container.querySelector(`.pdf-page-holder[data-page="${pageNum}"]`):
\* index of the first match in DOM order, 0 for null.
QuerySelector(hs, pageNum) ==
    LET hits == {i \in DOMAIN hs : hs[i].page = String(pageNum)}
    IN  IF hits = {} THEN 0 ELSE CHOOSE i \in hits : \A j \in hits : i <= j

\* try-branch DOM write of renderPage: canvas in, class pdf-page-rendered added
ShowCanvas(hs, pageNum) ==
    LET h == QuerySelector(hs, pageNum)
    IN  IF h # 0
        THEN [hs EXCEPT ![h].content = "canvas", ![h].rendered = TRUE]
        ELSE hs

\* variant: the selector lacks the data-page filter
ShowErrorFirstHolder(hs, pageNum) ==
    IF hs # <<>> THEN [hs EXCEPT ![1].content = "error"] ELSE hs

\* catch-branch DOM write of renderPage: inline .pdf-error in the page's content
ShowError(hs, pageNum) ==
    LET h == QuerySelector(hs, pageNum)
    IN  IF h # 0 THEN [hs EXCEPT ![h].content = "error"] ELSE hs

\* ---- the scheduler, as functions of its state ----
Sched == [queue |-> queue, inFlight |-> inFlight, active |-> active,
          stage |-> stage, micro |-> micro, started |-> started,
          accepted |-> accepted, declined |-> declined, waited |-> waited]

NoDecline == [page |-> 0, count |-> 0]

\* renderPage up to its first await
renderPage(st, pageNum) ==
    IF pageNum \in st.inFlight
    THEN [st EXCEPT !.micro = @ + 1]
    ELSE [st EXCEPT !.inFlight = @ \cup {pageNum},
                    !.stage[pageNum] = "getPage",
                    !.started = Append(@, pageNum)]

\* if (!next) break;  (a page number is falsy when it is 0)
Falsy(next) == next = 0

\* variant: active <= concurrent
RECURSIVE pumpOneTooMany(_)
pumpOneTooMany(st) ==
    IF st.active <= concurrent /\ Len(st.queue) # 0
    THEN LET next == Head(st.queue)
             shifted == [st EXCEPT !.queue = Tail(@)]
         IN  IF Falsy(next) THEN shifted
             ELSE pumpOneTooMany(renderPage([shifted EXCEPT !.active = @ + 1], next))
    ELSE st

\* variant: queue.pop() instead of queue.shift()
RECURSIVE pumpLifo(_)
pumpLifo(st) ==
    IF st.active < concurrent /\ Len(st.queue) # 0
    THEN LET next == st.queue[Len(st.queue)]
             popped == [st EXCEPT !.queue = SubSeq(@, 1, Len(@) - 1)]
         IN  IF Falsy(next) THEN popped
             ELSE pumpLifo(renderPage([popped EXCEPT !.active = @ + 1], next))
    ELSE st

\* while (active < concurrent && queue.length) { ... }
RECURSIVE pump(_)
pump(st) ==
    IF st.active < concurrent /\ Len(st.queue) # 0
    THEN LET next == Head(st.queue)
             shifted == [st EXCEPT !.queue = Tail(@)]
         IN  IF Falsy(next) THEN shifted
             ELSE pump(renderPage([shifted EXCEPT !.active = @ + 1], next))
    ELSE st

\* history only: enqueue's condition was false for a queued or in-flight page
NoteDeclined(st, pageNum) ==
    [st EXCEPT !.declined =
        IF @.page = pageNum
        THEN [@ EXCEPT !.count = Min(@ + 1, MaxRepeat)]
        ELSE [page |-> pageNum, count |-> 1]]

\* history only: the page is still in the queue when enqueue returns
NoteWaiting(st, pageNum) ==
    IF pageNum \in SeqToSet(st.queue)
    THEN [st EXCEPT !.waited = @ \cup {pageNum}]
    ELSE st

\* variant: enqueue without the inFlight.has test
enqueueNoInFlightCheck(st, pageNum) ==
    IF pageNum \notin SeqToSet(st.queue)
    THEN NoteWaiting(pump([st EXCEPT !.queue = Append(@, pageNum),
                                     !.accepted = Append(@, pageNum)]), pageNum)
    ELSE NoteDeclined(st, pageNum)

\* variant: enqueue without the queue.includes test
enqueueNoQueueCheck(st, pageNum) ==
    IF pageNum \notin st.inFlight
    THEN NoteWaiting(pump([st EXCEPT !.queue = Append(@, pageNum),
                                     !.accepted = Append(@, pageNum)]), pageNum)
    ELSE NoteDeclined(st, pageNum)

\* variant: enqueue pushes the page but does not call pump()
enqueueNoPump(st, pageNum) ==
    IF pageNum \notin SeqToSet(st.queue) /\ pageNum \notin st.inFlight
    THEN NoteWaiting([st EXCEPT !.queue = Append(@, pageNum),
                                !.accepted = Append(@, pageNum)], pageNum)
    ELSE NoteDeclined(st, pageNum)

\* if (!queue.includes(pageNum) && !inFlight.has(pageNum)) { push; pump() }
enqueue(st, pageNum) ==
    IF pageNum \notin SeqToSet(st.queue) /\ pageNum \notin st.inFlight
    THEN NoteWaiting(pump([st EXCEPT !.queue = Append(@, pageNum),
                                     !.accepted = Append(@, pageNum)]), pageNum)
    ELSE NoteDeclined(st, pageNum)

\* the IntersectionObserver callback: for (const entry of entries) { ... }
RECURSIVE OnIntersect(_, _, _)
OnIntersect(st, hs, entries) ==
    IF entries = <<>> THEN st
    ELSE LET entry == Head(entries)
             pageNum == Number(hs[entry.target].page)
             already == hs[entry.target].rendered
             st1 == IF entry.isIntersecting /\ ~already
                    THEN enqueue(st, pageNum) ELSE st
         IN  OnIntersect(st1, hs, Tail(entries))

\* variant: finally { inFlight.clear() }
SettledClearsInFlight(st, pageNum) ==
    [st EXCEPT !.inFlight = {},
               !.stage[pageNum] = "none",
               !.micro = @ + 1,
               !.declined = IF @.page = pageNum THEN NoDecline ELSE @,
               !.waited = @ \ {pageNum}]

\* finally { inFlight.delete(pageNum) }, then the async function returns and
\* the .finally callback registered by pump is queued
Settled(st, pageNum) ==
    [st EXCEPT !.inFlight = @ \ {pageNum},
               !.stage[pageNum] = "none",
               !.micro = @ + 1,
               !.declined = IF @.page = pageNum THEN NoDecline ELSE @,
               !.waited = @ \ {pageNum}]

\* variant: the callback frees the slot but does not pump
ReleaseWithoutPump(st) == [st EXCEPT !.micro = @ - 1, !.active = @ - 1]

\* variant: the callback pumps but does not give the slot back
ReleaseNoDecrement(st) == pump([st EXCEPT !.micro = @ - 1])

\* () => { active--; pump(); }
Release(st) == pump([st EXCEPT !.micro = @ - 1, !.active = @ - 1])

SetSched(st) ==
    /\ queue' = st.queue
    /\ inFlight' = st.inFlight
    /\ active' = st.active
    /\ stage' = st.stage
    /\ micro' = st.micro
    /\ started' = st.started
    /\ accepted' = st.accepted
    /\ declined' = st.declined
    /\ waited' = st.waited

schedVars == <<queue, inFlight, active, stage, micro, started, accepted, declined,
               waited>>
optVars == <<concurrent, numPages, proximity>>

\* ---- initial state: renderPDFLazy(src, container, options) is called ----
Worlds ==
    [numPages : 0..MaxPages, concurrent : 1..MaxConcurrent,
     proximity : {[free |-> TRUE, rest |-> <<>>]}]
    \cup {[numPages |-> Len(ScenarioOrder), concurrent |-> DefaultConcurrent,
           proximity |-> [free |-> FALSE, rest |-> ScenarioOrder]]}

\* The document-level faults a source can carry, read off the input itself
SourceFault(in) ==
    \/ in.kind = "other"
    \/ in.kind = "string" /\ ~in.ok
    \/ in.size < in.minBytes

\* A URL source answered with an ok response whose content-length is a
\* positive number below minBytes, whatever the body then holds
SmallHint(in) ==
    /\ in.kind = "string"
    /\ in.ok
    /\ \E n \in Sizes : ToString(n) = in.header /\ 0 < n /\ n < in.minBytes

\* the two renderPDF variants are not running during a renderPDFLazy call
ParUnused ==
    [pc |-> "unused", numPages |-> 0, loader |-> FALSE, task |-> <<>>,
     canvases |-> <<>>, done |-> <<>>, container |-> <<>>]
OldUnused ==
    [pc |-> "unused", numPages |-> 0, task |-> <<>>, container |-> <<>>,
     textContent |-> ""]

NotDisconnected == [called |-> FALSE, queue |-> <<>>, inFlight |-> {}]

Init ==
    /\ input \in Inputs
    /\ \E w \in Worlds :
        /\ numPages = w.numPages
        /\ concurrent = w.concurrent
        /\ proximity = w.proximity
    /\ pc = "start"
    /\ loader \in BOOLEAN
    /\ messages = <<>>
    /\ holders = <<>>
    /\ observer = "none"
    /\ queue = <<>>
    /\ inFlight = {}
    /\ active = 0
    /\ stage = [p \in PageIds |-> "none"]
    /\ micro = 0
    /\ started = <<>>
    /\ accepted = <<>>
    /\ outcome = [p \in PageIds |-> "none"]
    /\ settled = [p \in PageIds |-> 0]
    /\ srcFault = SourceFault(input)
    /\ declined = NoDecline
    /\ waited = {}
    /\ fails = 0
    /\ smallHint = SmallHint(input)
    /\ atDisconnect = NotDisconnected
    /\ par = ParUnused
    /\ old = OldUnused

domVars == <<loader, messages, holders, observer>>
histVars == <<outcome, settled, srcFault, fails>>
otherVars == <<smallHint, par, old>>
sideVars == <<otherVars, atDisconnect>>

\* variant: the finally clause is missing, the catch leaves the loader in place
FailKeepsLoader(msg) ==
    /\ pc' = "failed"
    /\ input' = NoInput
    /\ messages' = Append(messages, msg)
    /\ UNCHANGED <<loader, holders, observer>>

\* catch (err) { ... container.appendChild(msg) } finally { removeLoader() }
Fail(msg) ==
    /\ pc' = "failed"
    /\ input' = NoInput
    /\ messages' = Append(messages, msg)
    /\ loader' = FALSE
    /\ UNCHANGED <<holders, observer>>

\* toArrayBufferWithSize returned buf; pdfjsLib.getDocument({ data }) is awaited
Opening ==
    /\ pc' = "open"
    /\ input' = NoInput
    /\ UNCHANGED domVars

\* toArrayBufferWithSize(src) up to its first await, return or throw
Resolve ==
    /\ pc = "start"
    /\ CASE input.kind = "string" ->
              pc' = "fetch" /\ UNCHANGED <<input, domVars>>
         [] input.kind = "Blob" ->
              IF TooSmall(input.size, input.minBytes)
              THEN Fail("too small")
              ELSE pc' = "blob" /\ UNCHANGED <<input, domVars>>
         [] input.kind \in {"ArrayBuffer", "view"} ->
              IF TooSmall(input.size, input.minBytes)
              THEN Fail("too small")
              ELSE Opening
         [] OTHER -> Fail("unsupported")
    /\ UNCHANGED <<sideVars, optVars, schedVars, histVars>>

\* const res = await fetch(input) settles with a response
FetchResponds ==
    /\ pc = "fetch"
    /\ IF ~input.ok THEN Fail("fetch failed")
       ELSE IF HeaderTooSmall(input.header, input.minBytes) THEN Fail("too small")
       ELSE pc' = "body" /\ UNCHANGED <<input, domVars>>
    /\ UNCHANGED <<sideVars, optVars, schedVars, histVars>>

\* await fetch(input) rejects (network error)
FetchRejects ==
    /\ pc = "fetch"
    /\ Fail("network")
    /\ UNCHANGED <<sideVars, optVars, schedVars, histVars>>

\* const buf = await res.arrayBuffer() resolves
BodyRead ==
    /\ pc = "body"
    /\ IF TooSmall(input.size, input.minBytes) THEN Fail("too small") ELSE Opening
    /\ UNCHANGED <<sideVars, optVars, schedVars, histVars>>

\* await res.arrayBuffer() rejects (the body cannot be read)
BodyRejects ==
    /\ pc = "body"
    /\ Fail("network")
    /\ UNCHANGED <<sideVars, optVars, schedVars, histVars>>

\* return await input.arrayBuffer() resolves
BlobRead ==
    /\ pc = "blob"
    /\ Opening
    /\ UNCHANGED <<sideVars, optVars, schedVars, histVars>>

\* await input.arrayBuffer() rejects (the Blob cannot be read)
BlobRejects ==
    /\ pc = "blob"
    /\ Fail("not readable")
    /\ UNCHANGED <<sideVars, optVars, schedVars, histVars>>

\* const pdf = await loadingTask.promise settles
OpenSettles ==
    /\ pc = "open"
    /\ IF numPages = 0 THEN Fail("open failed")
       ELSE pc' = "firstPage" /\ UNCHANGED <<input, domVars>>
    /\ UNCHANGED <<sideVars, optVars, schedVars, histVars>>

\* await pdf.getPage(1) rejects
FirstPageRejects ==
    /\ pc = "firstPage"
    /\ Fail("open failed")
    /\ UNCHANGED <<sideVars, optVars, schedVars, histVars>>

\* await pdf.getPage(1) resolves: placeholders, removeLoader, observer, return
FirstPageResolves ==
    /\ pc = "firstPage"
    /\ holders' = holders \o BuildFrag(1, numPages, <<>>)
    /\ loader' = FALSE
    /\ observer' = "observing"
    /\ pc' = "ready"
    /\ UNCHANGED <<sideVars, input, messages, optVars, schedVars, histVars>>

\* ---- the viewport ----
Entries == [target : DOMAIN holders, isIntersecting : BOOLEAN]
EntrySeqs == UNION {[1..m -> Entries] : m \in 1..MaxEntries}

\* The observer delivers a batch of entries (a task: no microtask is pending)
ObserverCallback(entries) ==
    /\ pc = "ready"
    /\ observer = "observing"
    /\ micro = 0
    /\ IF proximity.free
       THEN UNCHANGED proximity
       ELSE /\ proximity.rest # <<>>
            /\ entries = <<[target |-> QuerySelector(holders, Head(proximity.rest)),
                            isIntersecting |-> TRUE]>>
            /\ proximity' = [proximity EXCEPT !.rest = Tail(@)]
    /\ SetSched(OnIntersect(Sched, holders, entries))
    /\ UNCHANGED <<sideVars, input, concurrent, numPages, pc, domVars, histVars>>

\* ---- settlements of the promises renderPage awaits ----
CanFail == fails < MaxFail

\* await pdf.getPage(pageNum) resolves: canvas made, page.render() awaited
GetPageResolves(pageNum) ==
    /\ stage[pageNum] = "getPage"
    /\ stage' = [stage EXCEPT ![pageNum] = "render"]
    /\ UNCHANGED <<sideVars, input, optVars, pc, domVars, histVars, queue, inFlight, active,
                   micro, started, accepted, declined, waited>>

\* await page.render(...).promise resolves
RenderResolves(pageNum) ==
    /\ stage[pageNum] = "render"
    /\ holders' = ShowCanvas(holders, pageNum)
    /\ SetSched(Settled(Sched, pageNum))
    /\ outcome' = [outcome EXCEPT ![pageNum] = "resolved"]
    /\ settled' = [settled EXCEPT ![pageNum] = @ + 1]
    /\ UNCHANGED <<sideVars, input, optVars, pc, loader, messages, observer, srcFault, fails>>

\* either await rejects: catch, then finally
PageRejects(pageNum) ==
    /\ holders' = ShowError(holders, pageNum)
    /\ SetSched(Settled(Sched, pageNum))
    /\ outcome' = [outcome EXCEPT ![pageNum] = "rejected"]
    /\ settled' = [settled EXCEPT ![pageNum] = @ + 1]
    /\ fails' = fails + 1
    /\ UNCHANGED <<sideVars, input, optVars, pc, loader, messages, observer, srcFault>>

GetPageRejects(pageNum) ==
    /\ stage[pageNum] = "getPage"
    /\ CanFail
    /\ PageRejects(pageNum)

RenderRejects(pageNum) ==
    /\ stage[pageNum] = "render"
    /\ CanFail
    /\ PageRejects(pageNum)

\* the .finally callback of pump runs
ReleaseSlot ==
    /\ micro > 0
    /\ SetSched(Release(Sched))
    /\ UNCHANGED <<sideVars, input, optVars, pc, domVars, histVars>>

\* variant: disconnect() finds no observer to disconnect (the test of line
\* 187 fails), notifications keep coming
DisconnectNotWired ==
    /\ pc = "ready"
    /\ observer = "observing"
    /\ ~atDisconnect.called
    /\ atDisconnect' = [called |-> TRUE, queue |-> queue, inFlight |-> inFlight]
    /\ UNCHANGED <<otherVars, input, optVars, pc, domVars, schedVars, histVars>>

\* variant: disconnect() also empties the queue (queue.length = 0)
DisconnectClearsQueue ==
    /\ pc = "ready"
    /\ observer = "observing"
    /\ observer' = "disconnected"
    /\ atDisconnect' = [called |-> TRUE, queue |-> queue, inFlight |-> inFlight]
    /\ queue' = <<>>
    /\ UNCHANGED <<otherVars, input, optVars, pc, loader, messages, holders, histVars,
                   inFlight, active, stage, micro, started, accepted, declined, waited>>

\* the API returned by renderPDFLazy: disconnect()
Disconnect ==
    /\ pc = "ready"
    /\ observer = "observing"
    /\ observer' = "disconnected"
    /\ atDisconnect' = [called |-> TRUE, queue |-> queue, inFlight |-> inFlight]
    /\ UNCHANGED <<otherVars, input, optVars, pc, loader, messages, holders, schedVars, histVars>>

Next ==
    \/ Resolve
    \/ FetchResponds
    \/ FetchRejects
    \/ BodyRead
    \/ BodyRejects
    \/ BlobRead
    \/ BlobRejects
    \/ OpenSettles
    \/ FirstPageRejects
    \/ FirstPageResolves
    \/ \E entries \in EntrySeqs : ObserverCallback(entries)
    \/ \E pageNum \in PageIds : GetPageResolves(pageNum)
    \/ \E pageNum \in PageIds : GetPageRejects(pageNum)
    \/ \E pageNum \in PageIds : RenderResolves(pageNum)
    \/ \E pageNum \in PageIds : RenderRejects(pageNum)
    \/ ReleaseSlot
    \/ Disconnect

Spec == Init /\ [][Next]_vars

\* Every promise renderPage awaits settles, and the microtask queue is drained.
Settle(pageNum) ==
    /\ pageNum \in PageIds
    /\ \/ GetPageResolves(pageNum)
       \/ GetPageRejects(pageNum)
       \/ RenderResolves(pageNum)
       \/ RenderRejects(pageNum)

FairInit == Init /\ (proximity.free => numPages <= MaxLivePages)

FairSpec ==
    /\ FairInit /\ [][Next]_vars
    /\ WF_vars(ReleaseSlot)
    /\ \A pageNum \in 1..MaxId : WF_vars(Settle(pageNum))



\* ============ renderPDF, parallel variant (Promise.all) ============
\* renderPDFLazy is not running while one of the renderPDF variants is
LazyUnused ==
    /\ input = NoInput
    /\ concurrent = DefaultConcurrent
    /\ numPages = 0
    /\ proximity = [free |-> FALSE, rest |-> <<>>]
    /\ pc = "unused"
    /\ loader = FALSE
    /\ messages = <<>>
    /\ holders = <<>>
    /\ observer = "none"
    /\ queue = <<>>
    /\ inFlight = {}
    /\ active = 0
    /\ stage = <<>>
    /\ micro = 0
    /\ started = <<>>
    /\ accepted = <<>>
    /\ outcome = <<>>
    /\ settled = <<>>
    /\ srcFault = FALSE
    /\ declined = NoDecline
    /\ waited = {}
    /\ fails = 0
    /\ smallHint = FALSE
    /\ atDisconnect = NotDisconnected

lazyVars == <<input, optVars, pc, domVars, schedVars, histVars, smallHint,
              atDisconnect>>

\* const pageNum = i + 1
PageNum(i) == i + 1

\* Array.from({ length: pdf.numPages }, ...): indexes 0 .. numPages - 1
Indexes(p) == 0..(p.numPages - 1)

\* renderPDF(url, container) up to await loadingTask.promise
ParStart(n, l) ==
    [pc |-> "getDocument", numPages |-> n, loader |-> l,
     task |-> [i \in 0..(n - 1) |-> "none"],
     canvases |-> [i \in 0..(n - 1) |-> 0],
     done |-> <<>>, container |-> <<>>]

\* variant: the values are collected in the order the promises fulfil
ValuesInCompletionOrder(p) == p.done

\* the array Promise.all fulfils with: the values in the order of the
\* promises it was given, whatever the order they fulfilled in
PromiseAllValues(p) == [k \in 1..p.numPages |-> p.canvases[k - 1]]

\* catch (err) { console.error(...) } finally { loader.remove() }
ParCatch(p) == [p EXCEPT !.pc = "failed", !.loader = FALSE]

\* await loadingTask.promise resolves: every mapper runs up to its
\* await pdf.getPage(pageNum), then Promise.all is awaited
ParOpenResolves ==
    /\ par.pc = "getDocument"
    /\ par' = [par EXCEPT !.pc = "all",
                          !.task = [i \in Indexes(par) |-> "getPage"]]
    /\ UNCHANGED <<lazyVars, old>>

\* await loadingTask.promise rejects
ParOpenRejects ==
    /\ par.pc = "getDocument"
    /\ par' = ParCatch(par)
    /\ UNCHANGED <<lazyVars, old>>

\* await pdf.getPage(pageNum) resolves in mapper i: canvas made, render awaited
ParGetPageResolves(i) ==
    /\ par.task[i] = "getPage"
    /\ par' = [par EXCEPT !.task[i] = "render"]
    /\ UNCHANGED <<lazyVars, old>>

\* await page.render(...).promise resolves in mapper i: return canvas
ParRenderResolves(i) ==
    /\ par.task[i] = "render"
    /\ par' = [par EXCEPT !.task[i] = "done",
                          !.canvases[i] = PageNum(i),
                          !.done = Append(@, PageNum(i))]
    /\ UNCHANGED <<lazyVars, old>>

\* mapper i rejects: its promise is rejected; renderPDF is still suspended
\* at the await of Promise.all
ParRejects(p, i) == [p EXCEPT !.task[i] = "rejected"]

ParGetPageRejects(i) ==
    /\ par.task[i] = "getPage"
    /\ par' = ParRejects(par, i)
    /\ UNCHANGED <<lazyVars, old>>

ParRenderRejects(i) ==
    /\ par.task[i] = "render"
    /\ par' = ParRejects(par, i)
    /\ UNCHANGED <<lazyVars, old>>

\* await Promise.all(...) rejects, a mapper's promise being rejected:
\* renderPDF resumes in catch, then finally
ParAllRejects ==
    /\ par.pc = "all"
    /\ \E i \in Indexes(par) : par.task[i] = "rejected"
    /\ par' = ParCatch(par)
    /\ UNCHANGED <<lazyVars, old>>

\* await Promise.all(...) resolves: canvases.forEach(appendChild) into the
\* fragment, container.appendChild(frag), then finally
ParAllResolves ==
    /\ par.pc = "all"
    /\ \A i \in Indexes(par) : par.task[i] = "done"
    /\ par' = [par EXCEPT !.pc = "done",
                          !.container = @ \o PromiseAllValues(par),
                          !.loader = FALSE]
    /\ UNCHANGED <<lazyVars, old>>

ParInit ==
    /\ LazyUnused
    /\ old = OldUnused
    /\ \E n \in 0..MaxParPages, l \in BOOLEAN : par = ParStart(n, l)

ParNext ==
    \/ ParOpenResolves
    \/ ParOpenRejects
    \/ \E i \in Indexes(par) : ParGetPageResolves(i)
    \/ \E i \in Indexes(par) : ParGetPageRejects(i)
    \/ \E i \in Indexes(par) : ParRenderResolves(i)
    \/ \E i \in Indexes(par) : ParRenderRejects(i)
    \/ ParAllRejects
    \/ ParAllResolves

ParallelSpec == ParInit /\ [][ParNext]_vars

\* ============ renderPDF, callback-based variant (nested then) ============
\* renderPDF(url, container) up to loadingTask.promise.then(...)
OldStart(n) ==
    [pc |-> "getDocument", numPages |-> n, task |-> [i \in 1..n |-> "none"],
     container |-> <<>>, textContent |-> ""]

\* variant: the canvas is inserted before the canvases of later pages
InsertInPageOrder(children, canvas) ==
    SelectSeq(children, LAMBDA c : c < canvas) \o <<canvas>>
        \o SelectSeq(children, LAMBDA c : c > canvas)

\* container.appendChild(canvas): the canvas becomes the last child
AppendChild(children, canvas) == Append(children, canvas)

\* loadingTask.promise resolves: the for loop calls pdf.getPage(pageNum).then
\* for every page
OldOpenResolves ==
    /\ old.pc = "getDocument"
    /\ old' = [old EXCEPT !.pc = "pages",
                          !.task = [pageNum \in 1..old.numPages |-> "getPage"]]
    /\ UNCHANGED <<lazyVars, par>>

\* loadingTask.promise rejects: .catch sets container.textContent
OldOpenRejects ==
    /\ old.pc = "getDocument"
    /\ old' = [old EXCEPT !.pc = "failed",
                          !.container = <<>>,
                          !.textContent = "Failed to load PDF: "]
    /\ UNCHANGED <<lazyVars, par>>

\* pdf.getPage(pageNum) resolves: canvas made, page.render(...).promise.then
OldGetPageResolves(pageNum) ==
    /\ old.task[pageNum] = "getPage"
    /\ old' = [old EXCEPT !.task[pageNum] = "render"]
    /\ UNCHANGED <<lazyVars, par>>

\* page.render(...).promise resolves: container.appendChild(canvas)
OldRenderResolves(pageNum) ==
    /\ old.task[pageNum] = "render"
    /\ old' = [old EXCEPT !.task[pageNum] = "done",
                          !.container = AppendChild(@, pageNum)]
    /\ UNCHANGED <<lazyVars, par>>

\* pdf.getPage(pageNum) or the render promise rejects: no handler is attached
OldPageRejects(pageNum) ==
    /\ old.task[pageNum] \in {"getPage", "render"}
    /\ old' = [old EXCEPT !.task[pageNum] = "rejected"]
    /\ UNCHANGED <<lazyVars, par>>

OldInit ==
    /\ LazyUnused
    /\ par = ParUnused
    /\ \E n \in 0..MaxOldPages : old = OldStart(n)

OldNext ==
    \/ OldOpenResolves
    \/ OldOpenRejects
    \/ \E pageNum \in 1..old.numPages : OldGetPageResolves(pageNum)
    \/ \E pageNum \in 1..old.numPages : OldRenderResolves(pageNum)
    \/ \E pageNum \in 1..old.numPages : OldPageRejects(pageNum)

CallbackSpec == OldInit /\ [][OldNext]_vars

\* ======================= the claims =======================
HolderOf(pageNum) == holders[QuerySelector(holders, pageNum)]

\* C1: for every limit k >= 1 and every order of notifications and
\* settlements, the in-flight set never holds more than k pages.
C1_InFlightWithinLimit == Cardinality(inFlight) <= concurrent

\* the limit is reached, a page waits, and a settlement has already happened
C1_Witness ==
    /\ Cardinality(inFlight) = concurrent
    /\ queue # <<>>
    /\ \E p \in PageIds : settled[p] > 0

\* C8: the queue holds no page twice, and no page is at once in the queue
\* and in the in-flight set.
C8_QueueAndInFlightDisjoint ==
    /\ \A p \in PageIds : Count(queue, p) <= 1
    /\ SeqToSet(queue) \cap inFlight = {}

\* a page waits in the queue while another is in flight and was notified again
C8_Witness ==
    /\ queue # <<>>
    /\ declined.count >= 1
    /\ declined.page \in inFlight

\* C9: once the body has passed the placeholder build there are exactly N
\* placeholders, with page identifiers 1..N, and no page is queued or
\* rendered while fewer exist.
C9_PlaceholdersFirst ==
    (pc = "ready" \/ accepted # <<>> \/ started # <<>>) =>
        /\ Len(holders) = numPages
        /\ \A i \in PageIds : Number(holders[i].page) = i
        /\ \A i, j \in DOMAIN holders : holders[i].page = holders[j].page => i = j

\* a render has been started in a document of at least two pages
C9_Witness ==
    /\ started # <<>>
    /\ numPages >= 2
    /\ Len(holders) = numPages

\* C10: a document-level fault (size below minBytes, fetch not ok,
\* unsupported type, document not opened) stops the operation before any
\* placeholder exists, no render is ever admitted, and the container gets
\* exactly one error message.
C10_DocumentFailureIsFatal ==
    /\ srcFault => pc \in {"start", "fetch", "body", "blob", "failed"}
    /\ numPages = 0 => pc \notin {"firstPage", "ready"}
    /\ (srcFault \/ numPages = 0 \/ pc = "failed") =>
          /\ holders = <<>>
          /\ accepted = <<>> /\ started = <<>> /\ queue = <<>> /\ inFlight = {}
          /\ observer = "none"
    /\ Len(messages) = (IF pc = "failed" THEN 1 ELSE 0)

\* the operation has failed on a source smaller than minBytes
C10_Witness ==
    /\ pc = "failed"
    /\ srcFault
    /\ messages = <<"too small">>


\* C2: however often a page is notified while it is queued or in flight,
\* it has one queue entry or one outstanding render call, never more, and
\* every render call answers exactly one accepted notification.
C2_OneRenderPerPendingPage ==
    \A p \in PageIds :
        LET outstanding == Count(started, p) - settled[p]
        IN  /\ outstanding \in {0, 1}
            /\ Count(queue, p) + outstanding <= 1
            /\ (p \in inFlight) <=> (outstanding = 1)
            /\ Count(accepted, p) = Count(started, p) + Count(queue, p)

\* a page was notified again at least twice while queued or in flight, and
\* its one render call has reached page.render()
C2_Witness ==
    \E p \in PageIds :
        /\ declined.page = p
        /\ declined.count >= 2
        /\ Count(started, p) = 1
        /\ stage[p] = "render"

\* C3: render calls start in the order in which notifications were
\* accepted, whatever the page numbers; in the scenario 3,1,5,2,4 with
\* limit 2 every notification is accepted and the admissions follow it.
C3_FifoAdmission ==
    /\ accepted = started \o queue
    /\ ~proximity.free =>
          accepted = SubSeq(ScenarioOrder, 1,
                            Len(ScenarioOrder) - Len(proximity.rest))

\* the scenario has run to its end: admissions were 3, 1, 5, 2, 4
C3_Witness ==
    /\ ~proximity.free
    /\ concurrent = DefaultConcurrent
    /\ started = ScenarioOrder
    /\ inFlight = {}


\* ---- lifecycle of a placeholder, read off the DOM and the scheduler ----
Marked(pageNum) ==
    /\ QuerySelector(holders, pageNum) # 0
    /\ HolderOf(pageNum).content \in {"canvas", "error"}

Life(pageNum) ==
    IF pageNum \in inFlight THEN "rendering"
    ELSE IF QuerySelector(holders, pageNum) = 0 THEN "pending"
    ELSE CASE HolderOf(pageNum).content = "canvas" -> "rendered"
           [] HolderOf(pageNum).content = "error" -> "failed"
           [] OTHER -> "pending"

Quiescent == queue = <<>> /\ inFlight = {} /\ micro = 0

\* C4: a rejected render of page P writes the error into P's placeholder
\* only, takes P alone out of the in-flight set, schedules the release of
\* its slot, leaves the queue, the other renders and the top-level
\* operation untouched; when all work is done every accepted page shows
\* the outcome of its own render call.
C4_RejectStep ==
    \A p \in PageIds :
        (settled'[p] = settled[p] + 1 /\ outcome'[p] = "rejected") =>
            /\ queue' = queue
            /\ inFlight' = inFlight \ {p}
            /\ active' = active /\ micro' = micro + 1
            /\ HolderOf(p)'.content = "error"
            /\ \A q \in PageIds \ {p} :
                  /\ HolderOf(q)' = HolderOf(q)
                  /\ stage'[q] = stage[q]
                  /\ outcome'[q] = outcome[q]
            /\ pc' = pc /\ messages' = messages /\ observer' = observer

C4_OwnOutcome ==
    Quiescent =>
        \A q \in SeqToSet(accepted) :
            /\ outcome[q] \in {"resolved", "rejected"}
            /\ outcome[q] = "resolved" =>
                  HolderOf(q).content = "canvas" /\ HolderOf(q).rendered
            /\ outcome[q] = "rejected" => HolderOf(q).content = "error"

C4_FailureIsolated == [][C4_RejectStep]_vars /\ []C4_OwnOutcome

\* the scenario has ended: page 2 rejected, pages 1, 3, 4, 5 rendered
C4_Witness ==
    /\ ~proximity.free
    /\ Quiescent
    /\ SeqToSet(accepted) = PageIds
    /\ outcome[2] = "rejected" /\ HolderOf(2).content = "error"
    /\ \A q \in PageIds \ {2} : HolderOf(q).content = "canvas" /\ HolderOf(q).rendered

\* C5: with every started render settling, a page left waiting in the
\* queue is eventually admitted, and an admitted page eventually settles.
C5_DeferredIsServed ==
    \A p \in 1..MaxId :
        /\ (p \in SeqToSet(queue)) ~> (p \in inFlight)
        /\ (p \in inFlight) ~> (p \notin inFlight /\ p \in PageIds /\ settled[p] > 0)

\* a page that enqueue left waiting behind k busy slots is now in flight
C5_Witness ==
    \E p \in waited :
        /\ p \in inFlight
        /\ Len(started) > concurrent
        /\ queue # <<>>

\* C6 (as claimed): in no step does a page whose placeholder already shows
\* a canvas or an error get a new queue entry or a new render call.
C6_MarkedPageNeverRequeued ==
    [][\A p \in PageIds :
          Marked(p) =>
              /\ Count(accepted', p) = Count(accepted, p)
              /\ Count(started', p) = Count(started, p)]_vars

\* C7 (as claimed): a placeholder only moves pending -> rendering ->
\* rendered | failed, and is never queued again once it has left pending.
C7_Allowed(a, b) ==
    \/ a = b
    \/ a = "pending" /\ b = "rendering"
    \/ a = "rendering" /\ b \in {"rendered", "failed"}

C7_LifecycleOneWay ==
    [][\A p \in PageIds :
          /\ C7_Allowed(Life(p), Life(p)')
          /\ Life(p) # "pending" => p \notin SeqToSet(queue')]_vars

\* C11: for a URL source whose ok response announces a positive
\* content-length strictly below minBytes, the body is never read
\* (res.arrayBuffer() is not awaited, the document is never opened) and
\* the load ends in the size error raised at the header check; the only
\* other end is a fetch that never produced the response.
C11_SmallHintFailsBeforeBody ==
    smallHint =>
        /\ pc \in {"start", "fetch", "failed"}
        /\ pc = "failed" => messages \in {<<"too small">>, <<"network">>}
        /\ pc = "fetch" => HeaderNumber(input.header).val < input.minBytes

C11_Witness ==
    /\ smallHint
    /\ pc = "failed"
    /\ messages = <<"too small">>
    /\ holders = <<>>

\* C12: once the promise of renderPDFLazy has settled, on the successful
\* path (API returned) as on every failing one (source validation, fetch,
\* document open: the error is caught and shown, never rethrown), the
\* container holds no loader, and it never gets one again.
C12_SettledWithoutLoader ==
    /\ pc \in {"start", "fetch", "body", "blob", "open", "firstPage", "ready", "failed"}
    /\ pc \in {"ready", "failed"} => ~loader
    /\ pc = "failed" => Len(messages) = 1 /\ observer = "none"
    /\ pc = "ready" => messages = <<>> /\ observer # "none"

C12_Witness ==
    /\ pc = "failed"
    /\ ~loader
    /\ messages = <<"unsupported">>

\* C14: the step in which page P's render call settles, with a canvas or
\* with an error, writes P's placeholder only and takes P alone out of
\* the in-flight set; the queue, the slot counter and every other page's
\* placeholder, await position and recorded outcome are as before; and a
\* page whose awaited promise can settle never has to wait for another
\* page: its settlement is enabled whatever the other pages are doing.
C14_SettleStep ==
    \A p \in PageIds :
        settled'[p] = settled[p] + 1 =>
            /\ p \in inFlight
            /\ inFlight' = inFlight \ {p}
            /\ queue' = queue
            /\ active' = active
            /\ accepted' = accepted /\ started' = started
            /\ Len(holders') = Len(holders)
            /\ HolderOf(p)'.page = HolderOf(p).page
            /\ HolderOf(p)'.content =
                  (IF outcome'[p] = "resolved" THEN "canvas" ELSE "error")
            /\ \A q \in PageIds \ {p} :
                  /\ HolderOf(q)' = HolderOf(q)
                  /\ stage'[q] = stage[q]
                  /\ outcome'[q] = outcome[q]
                  /\ settled'[q] = settled[q]

C14_NeverWaits ==
    \A p \in PageIds :
        /\ stage[p] = "getPage" => ENABLED GetPageResolves(p)
        /\ stage[p] = "render" => ENABLED RenderResolves(p)
        /\ p \in inFlight <=> stage[p] # "none"

C14_SettlementIsLocal == [][C14_SettleStep]_vars /\ []C14_NeverWaits

\* page p has just settled with a canvas (its slot is not yet released)
\* while another page is in flight and a third one waits in the queue
C14_Witness ==
    \E p \in PageIds :
        /\ p \notin inFlight /\ micro > 0
        /\ outcome[p] = "resolved" /\ HolderOf(p).content = "canvas"
        /\ inFlight # {}
        /\ queue # <<>>
        /\ \A q \in inFlight \cup SeqToSet(queue) : HolderOf(q).content = "skeleton"

\* C15: the scheduler is work-conserving. pump runs at the end of every
\* accepted enqueue and of every slot release, so whenever no .finally
\* callback is pending, a page waits in the queue only if all k slots are
\* taken: exactly k render calls are outstanding.
C15_WorkConserving ==
    (micro = 0 /\ queue # <<>>) =>
        /\ Cardinality(inFlight) = concurrent
        /\ active = concurrent

\* two pages wait behind a full set of slots after a slot was released and
\* refilled from the queue
C15_Witness ==
    /\ micro = 0
    /\ Len(queue) >= 2
    /\ Cardinality(inFlight) = concurrent
    /\ Len(started) > concurrent

\* C19: the counter pump admits by stays consistent with the in-flight
\* set: 0 <= |inFlight| <= active <= concurrent always; active exceeds
\* |inFlight| exactly by the settled render calls whose .finally callback
\* has not run yet, so the two are equal when none is pending; and every
\* page pump takes off the queue gets a render call of its own, never
\* while an earlier call for that page is still in flight.
C19_ActiveMatchesInFlight ==
    /\ 0 <= Cardinality(inFlight)
    /\ Cardinality(inFlight) <= active
    /\ active <= concurrent
    /\ active = Cardinality(inFlight) + micro
    /\ micro = 0 => active = Cardinality(inFlight)
    /\ Len(accepted) = Len(started) + Len(queue)
    /\ \A p \in PageIds :
          Count(started, p) = settled[p] + (IF p \in inFlight THEN 1 ELSE 0)

\* a settled render still holds its slot: active is above |inFlight|
\* while a page waits in the queue
C19_Witness ==
    /\ micro > 0
    /\ Cardinality(inFlight) < active
    /\ active = concurrent
    /\ queue # <<>>

\* C13: once disconnect() has been called no page is pushed on the render
\* queue any more, while every render call that was in flight at that
\* moment still settles, and the canvas or the inline error it ends with
\* is in that page's own placeholder.
C13_NoAcceptStep ==
    atDisconnect.called =>
        /\ accepted' = accepted
        /\ SeqToSet(queue') \subseteq SeqToSet(queue)
        /\ atDisconnect' = atDisconnect

C13_ResultApplied ==
    \A p \in atDisconnect.inFlight :
        p \notin inFlight =>
            /\ outcome[p] \in {"resolved", "rejected"}
            /\ HolderOf(p).page = String(p)
            /\ HolderOf(p).content =
                  (IF outcome[p] = "resolved" THEN "canvas" ELSE "error")

C13_DisconnectStopsIntake ==
    /\ [][C13_NoAcceptStep]_vars
    /\ []C13_ResultApplied
    /\ \A p \in 1..MaxId :
          (p \in atDisconnect.inFlight) ~> (p \notin inFlight)

\* two renders were in flight at disconnect(); one has since ended with a
\* canvas, the other with an error, and nothing is left to do
C13_Witness ==
    /\ atDisconnect.called
    /\ Quiescent
    /\ \E p, q \in atDisconnect.inFlight :
          /\ outcome[p] = "resolved" /\ HolderOf(p).content = "canvas"
          /\ outcome[q] = "rejected" /\ HolderOf(q).content = "error"

\* C18: disconnect() leaves the queue, the slot counter and the pending
\* callbacks as they are; the pages that were queued at that moment are
\* afterwards taken off the head of the queue one by one, in their queue
\* order, as slots are released, and each of them gets its render call
\* and settles, provided every started render settles.
C18_DisconnectStep ==
    (~atDisconnect.called /\ atDisconnect'.called) =>
        /\ queue' = queue /\ atDisconnect'.queue = queue
        /\ inFlight' = inFlight /\ active' = active /\ micro' = micro
        /\ stage' = stage /\ started' = started /\ holders' = holders

C18_DrainsInOrder ==
    atDisconnect.called =>
        \E n \in 0..Len(atDisconnect.queue) :
            /\ queue = SubSeq(atDisconnect.queue, n + 1, Len(atDisconnect.queue))
            /\ n <= Len(started)
            /\ SubSeq(started, Len(started) - n + 1, Len(started))
                  = SubSeq(atDisconnect.queue, 1, n)

C18_QueuedPagesStillServed ==
    /\ [][C18_DisconnectStep]_vars
    /\ []C18_DrainsInOrder
    /\ \A p \in 1..MaxId :
          (p \in SeqToSet(atDisconnect.queue))
              ~> (p \notin SeqToSet(queue) /\ p \notin inFlight /\ Marked(p))

\* three pages waited in the queue at disconnect(); all of them have been
\* admitted in that order and have settled
C18_Witness ==
    /\ atDisconnect.called
    /\ Len(atDisconnect.queue) = 3
    /\ Quiescent
    /\ SubSeq(started, Len(started) - 2, Len(started)) = atDisconnect.queue
    /\ \A p \in SeqToSet(atDisconnect.queue) : Marked(p)

\* C16: the parallel renderPDF starts every page's getPage/render chain as
\* soon as the document is open, appends nothing before all of them have
\* fulfilled, then appends the canvases in page order 1..N whatever order
\* they were finished in; if the document or any page fails nothing is
\* ever appended (once a page has failed the call can only end in its
\* catch, whatever the other pages do meanwhile); the loader is gone once
\* the call has ended either way.
C16_AllOrNothingInPageOrder ==
    /\ par.pc = "getDocument" => \A i \in Indexes(par) : par.task[i] = "none"
    /\ par.pc = "all" => \A i \in Indexes(par) : par.task[i] # "none"
    /\ par.pc \in {"getDocument", "all", "failed"} => par.container = <<>>
    /\ par.pc = "done" =>
          /\ par.container = [k \in 1..par.numPages |-> k]
          /\ \A i \in Indexes(par) : par.task[i] = "done"
    /\ par.pc \in {"done", "failed"} => ~par.loader
    /\ (\E i \in Indexes(par) : par.task[i] = "rejected") =>
          /\ par.pc \in {"all", "failed"}
          /\ par.container = <<>>
          /\ par.pc = "all" => ENABLED ParAllRejects /\ ~ENABLED ParAllResolves

\* the last page was finished first, yet its canvas is the last child
C16_Witness ==
    /\ par.pc = "done"
    /\ par.numPages >= 3
    /\ par.done[1] = par.numPages
    /\ par.container[1] = 1
    /\ par.container[par.numPages] = par.numPages

\* C17: in the callback-based renderPDF a page's canvas becomes the last
\* child of the container at the moment that page's own render promise
\* fulfils, and at no other moment, so the children are in completion
\* order: with two or more pages they can end up out of page order.
C17_AppendStep ==
    /\ \A pageNum \in 1..old.numPages :
          (old.task[pageNum] # "done" /\ old'.task[pageNum] = "done") =>
              old'.container = Append(old.container, pageNum)
    /\ old'.container # old.container =>
          \E pageNum \in 1..old.numPages :
              old.task[pageNum] = "render" /\ old'.task[pageNum] = "done"

C17_OneCanvasPerDonePage ==
    \A pageNum \in 1..old.numPages :
        Count(old.container, pageNum) = (IF old.task[pageNum] = "done" THEN 1 ELSE 0)

C17_AppendedOnCompletion == [][C17_AppendStep]_vars /\ []C17_OneCanvasPerDonePage

\* every page is rendered and the canvas of the last page is the first child
C17_Witness ==
    /\ old.numPages >= 2
    /\ Len(old.container) = old.numPages
    /\ old.container[1] = old.numPages
    /\ \E i, j \in DOMAIN old.container : i < j /\ old.container[i] > old.container[j]
====
